---- MODULE Spec2Model ----
(***************************************************************************)
(* A model of FastFieldReader (src/fields/loader.py): the lazy reader of   *)
(* multi-timestep field snapshots.  The container on disk is the input;    *)
(* the reader object, the container handle and the buffers handed to the   *)
(* caller are the state.  One action per method of the class.              *)
(*                                                                         *)
(* Python values: None is the empty tuple and a present value v is <<v>>.  *)
(* A group name is a sequence of characters, a character outside printable *)
(* ASCII written by its code point ("U+0660"); a dataset name a sequence   *)
(* of tokens of which "_mode_" is the mode separator.  Grid offsets,       *)
(* spacings and axis coordinates are float64 values, every operation on    *)
(* them rounded as IEEE 754 rounds it.                                     *)
(***************************************************************************)
EXTENDS Integers, Sequences, FiniteSets, TLC

VARIABLES disk, reader, handle, closes, result, got

vars == <<disk, reader, handle, closes, result, got>>

(* ---------------------------------------------------------------- bounds *)

\* most timestep groups in a container
MaxGroups == 2
\* most calls of close() and __exit__ on one reader
MaxCloses == 2
\* requested timesteps range over -1/2 .. MaxT + 1/2, in halves
MaxT == 4
\* extents of the axis check range over 0 .. MaxExtent
MaxExtent == 3
\* offsets and spacings of the axis check range over -MaxGrid .. MaxGrid halves
MaxGrid == 2
\* start, stop and the on-disk half-extent of the selection check
MaxIdx == 4
\* strides of the selection check range over 1 .. MaxStep
MaxStep == 3

(* ---------------------------------------------------------- Python values *)

None == <<>>
Some(v) == <<v>>
IsNone(x) == x = <<>>
Val(x) == x[1]

Range(s) == {s[i] : i \in DOMAIN s}

\* the characters int() reads as decimal digits (Unicode category Nd, as of
\* Unicode 14): one row per script, zero to nine
DecimalDigits ==
    << <<"0", "1", "2", "3", "4", "5", "6", "7", "8", "9">>,
       <<"U+0660", "U+0661", "U+0662", "U+0663", "U+0664", "U+0665", "U+0666", "U+0667", "U+0668", "U+0669">>,
       <<"U+06F0", "U+06F1", "U+06F2", "U+06F3", "U+06F4", "U+06F5", "U+06F6", "U+06F7", "U+06F8", "U+06F9">>,
       <<"U+07C0", "U+07C1", "U+07C2", "U+07C3", "U+07C4", "U+07C5", "U+07C6", "U+07C7", "U+07C8", "U+07C9">>,
       <<"U+0966", "U+0967", "U+0968", "U+0969", "U+096A", "U+096B", "U+096C", "U+096D", "U+096E", "U+096F">>,
       <<"U+09E6", "U+09E7", "U+09E8", "U+09E9", "U+09EA", "U+09EB", "U+09EC", "U+09ED", "U+09EE", "U+09EF">>,
       <<"U+0A66", "U+0A67", "U+0A68", "U+0A69", "U+0A6A", "U+0A6B", "U+0A6C", "U+0A6D", "U+0A6E", "U+0A6F">>,
       <<"U+0AE6", "U+0AE7", "U+0AE8", "U+0AE9", "U+0AEA", "U+0AEB", "U+0AEC", "U+0AED", "U+0AEE", "U+0AEF">>,
       <<"U+0B66", "U+0B67", "U+0B68", "U+0B69", "U+0B6A", "U+0B6B", "U+0B6C", "U+0B6D", "U+0B6E", "U+0B6F">>,
       <<"U+0BE6", "U+0BE7", "U+0BE8", "U+0BE9", "U+0BEA", "U+0BEB", "U+0BEC", "U+0BED", "U+0BEE", "U+0BEF">>,
       <<"U+0C66", "U+0C67", "U+0C68", "U+0C69", "U+0C6A", "U+0C6B", "U+0C6C", "U+0C6D", "U+0C6E", "U+0C6F">>,
       <<"U+0CE6", "U+0CE7", "U+0CE8", "U+0CE9", "U+0CEA", "U+0CEB", "U+0CEC", "U+0CED", "U+0CEE", "U+0CEF">>,
       <<"U+0D66", "U+0D67", "U+0D68", "U+0D69", "U+0D6A", "U+0D6B", "U+0D6C", "U+0D6D", "U+0D6E", "U+0D6F">>,
       <<"U+0DE6", "U+0DE7", "U+0DE8", "U+0DE9", "U+0DEA", "U+0DEB", "U+0DEC", "U+0DED", "U+0DEE", "U+0DEF">>,
       <<"U+0E50", "U+0E51", "U+0E52", "U+0E53", "U+0E54", "U+0E55", "U+0E56", "U+0E57", "U+0E58", "U+0E59">>,
       <<"U+0ED0", "U+0ED1", "U+0ED2", "U+0ED3", "U+0ED4", "U+0ED5", "U+0ED6", "U+0ED7", "U+0ED8", "U+0ED9">>,
       <<"U+0F20", "U+0F21", "U+0F22", "U+0F23", "U+0F24", "U+0F25", "U+0F26", "U+0F27", "U+0F28", "U+0F29">>,
       <<"U+1040", "U+1041", "U+1042", "U+1043", "U+1044", "U+1045", "U+1046", "U+1047", "U+1048", "U+1049">>,
       <<"U+1090", "U+1091", "U+1092", "U+1093", "U+1094", "U+1095", "U+1096", "U+1097", "U+1098", "U+1099">>,
       <<"U+17E0", "U+17E1", "U+17E2", "U+17E3", "U+17E4", "U+17E5", "U+17E6", "U+17E7", "U+17E8", "U+17E9">>,
       <<"U+1810", "U+1811", "U+1812", "U+1813", "U+1814", "U+1815", "U+1816", "U+1817", "U+1818", "U+1819">>,
       <<"U+1946", "U+1947", "U+1948", "U+1949", "U+194A", "U+194B", "U+194C", "U+194D", "U+194E", "U+194F">>,
       <<"U+19D0", "U+19D1", "U+19D2", "U+19D3", "U+19D4", "U+19D5", "U+19D6", "U+19D7", "U+19D8", "U+19D9">>,
       <<"U+1A80", "U+1A81", "U+1A82", "U+1A83", "U+1A84", "U+1A85", "U+1A86", "U+1A87", "U+1A88", "U+1A89">>,
       <<"U+1A90", "U+1A91", "U+1A92", "U+1A93", "U+1A94", "U+1A95", "U+1A96", "U+1A97", "U+1A98", "U+1A99">>,
       <<"U+1B50", "U+1B51", "U+1B52", "U+1B53", "U+1B54", "U+1B55", "U+1B56", "U+1B57", "U+1B58", "U+1B59">>,
       <<"U+1BB0", "U+1BB1", "U+1BB2", "U+1BB3", "U+1BB4", "U+1BB5", "U+1BB6", "U+1BB7", "U+1BB8", "U+1BB9">>,
       <<"U+1C40", "U+1C41", "U+1C42", "U+1C43", "U+1C44", "U+1C45", "U+1C46", "U+1C47", "U+1C48", "U+1C49">>,
       <<"U+1C50", "U+1C51", "U+1C52", "U+1C53", "U+1C54", "U+1C55", "U+1C56", "U+1C57", "U+1C58", "U+1C59">>,
       <<"U+A620", "U+A621", "U+A622", "U+A623", "U+A624", "U+A625", "U+A626", "U+A627", "U+A628", "U+A629">>,
       <<"U+A8D0", "U+A8D1", "U+A8D2", "U+A8D3", "U+A8D4", "U+A8D5", "U+A8D6", "U+A8D7", "U+A8D8", "U+A8D9">>,
       <<"U+A900", "U+A901", "U+A902", "U+A903", "U+A904", "U+A905", "U+A906", "U+A907", "U+A908", "U+A909">>,
       <<"U+A9D0", "U+A9D1", "U+A9D2", "U+A9D3", "U+A9D4", "U+A9D5", "U+A9D6", "U+A9D7", "U+A9D8", "U+A9D9">>,
       <<"U+A9F0", "U+A9F1", "U+A9F2", "U+A9F3", "U+A9F4", "U+A9F5", "U+A9F6", "U+A9F7", "U+A9F8", "U+A9F9">>,
       <<"U+AA50", "U+AA51", "U+AA52", "U+AA53", "U+AA54", "U+AA55", "U+AA56", "U+AA57", "U+AA58", "U+AA59">>,
       <<"U+ABF0", "U+ABF1", "U+ABF2", "U+ABF3", "U+ABF4", "U+ABF5", "U+ABF6", "U+ABF7", "U+ABF8", "U+ABF9">>,
       <<"U+FF10", "U+FF11", "U+FF12", "U+FF13", "U+FF14", "U+FF15", "U+FF16", "U+FF17", "U+FF18", "U+FF19">>,
       <<"U+104A0", "U+104A1", "U+104A2", "U+104A3", "U+104A4", "U+104A5", "U+104A6", "U+104A7", "U+104A8", "U+104A9">>,
       <<"U+10D30", "U+10D31", "U+10D32", "U+10D33", "U+10D34", "U+10D35", "U+10D36", "U+10D37", "U+10D38", "U+10D39">>,
       <<"U+11066", "U+11067", "U+11068", "U+11069", "U+1106A", "U+1106B", "U+1106C", "U+1106D", "U+1106E", "U+1106F">>,
       <<"U+110F0", "U+110F1", "U+110F2", "U+110F3", "U+110F4", "U+110F5", "U+110F6", "U+110F7", "U+110F8", "U+110F9">>,
       <<"U+11136", "U+11137", "U+11138", "U+11139", "U+1113A", "U+1113B", "U+1113C", "U+1113D", "U+1113E", "U+1113F">>,
       <<"U+111D0", "U+111D1", "U+111D2", "U+111D3", "U+111D4", "U+111D5", "U+111D6", "U+111D7", "U+111D8", "U+111D9">>,
       <<"U+112F0", "U+112F1", "U+112F2", "U+112F3", "U+112F4", "U+112F5", "U+112F6", "U+112F7", "U+112F8", "U+112F9">>,
       <<"U+11450", "U+11451", "U+11452", "U+11453", "U+11454", "U+11455", "U+11456", "U+11457", "U+11458", "U+11459">>,
       <<"U+114D0", "U+114D1", "U+114D2", "U+114D3", "U+114D4", "U+114D5", "U+114D6", "U+114D7", "U+114D8", "U+114D9">>,
       <<"U+11650", "U+11651", "U+11652", "U+11653", "U+11654", "U+11655", "U+11656", "U+11657", "U+11658", "U+11659">>,
       <<"U+116C0", "U+116C1", "U+116C2", "U+116C3", "U+116C4", "U+116C5", "U+116C6", "U+116C7", "U+116C8", "U+116C9">>,
       <<"U+11730", "U+11731", "U+11732", "U+11733", "U+11734", "U+11735", "U+11736", "U+11737", "U+11738", "U+11739">>,
       <<"U+118E0", "U+118E1", "U+118E2", "U+118E3", "U+118E4", "U+118E5", "U+118E6", "U+118E7", "U+118E8", "U+118E9">>,
       <<"U+11950", "U+11951", "U+11952", "U+11953", "U+11954", "U+11955", "U+11956", "U+11957", "U+11958", "U+11959">>,
       <<"U+11C50", "U+11C51", "U+11C52", "U+11C53", "U+11C54", "U+11C55", "U+11C56", "U+11C57", "U+11C58", "U+11C59">>,
       <<"U+11D50", "U+11D51", "U+11D52", "U+11D53", "U+11D54", "U+11D55", "U+11D56", "U+11D57", "U+11D58", "U+11D59">>,
       <<"U+11DA0", "U+11DA1", "U+11DA2", "U+11DA3", "U+11DA4", "U+11DA5", "U+11DA6", "U+11DA7", "U+11DA8", "U+11DA9">>,
       <<"U+16A60", "U+16A61", "U+16A62", "U+16A63", "U+16A64", "U+16A65", "U+16A66", "U+16A67", "U+16A68", "U+16A69">>,
       <<"U+16AC0", "U+16AC1", "U+16AC2", "U+16AC3", "U+16AC4", "U+16AC5", "U+16AC6", "U+16AC7", "U+16AC8", "U+16AC9">>,
       <<"U+16B50", "U+16B51", "U+16B52", "U+16B53", "U+16B54", "U+16B55", "U+16B56", "U+16B57", "U+16B58", "U+16B59">>,
       <<"U+1D7CE", "U+1D7CF", "U+1D7D0", "U+1D7D1", "U+1D7D2", "U+1D7D3", "U+1D7D4", "U+1D7D5", "U+1D7D6", "U+1D7D7">>,
       <<"U+1D7D8", "U+1D7D9", "U+1D7DA", "U+1D7DB", "U+1D7DC", "U+1D7DD", "U+1D7DE", "U+1D7DF", "U+1D7E0", "U+1D7E1">>,
       <<"U+1D7E2", "U+1D7E3", "U+1D7E4", "U+1D7E5", "U+1D7E6", "U+1D7E7", "U+1D7E8", "U+1D7E9", "U+1D7EA", "U+1D7EB">>,
       <<"U+1D7EC", "U+1D7ED", "U+1D7EE", "U+1D7EF", "U+1D7F0", "U+1D7F1", "U+1D7F2", "U+1D7F3", "U+1D7F4", "U+1D7F5">>,
       <<"U+1D7F6", "U+1D7F7", "U+1D7F8", "U+1D7F9", "U+1D7FA", "U+1D7FB", "U+1D7FC", "U+1D7FD", "U+1D7FE", "U+1D7FF">>,
       <<"U+1E140", "U+1E141", "U+1E142", "U+1E143", "U+1E144", "U+1E145", "U+1E146", "U+1E147", "U+1E148", "U+1E149">>,
       <<"U+1E2F0", "U+1E2F1", "U+1E2F2", "U+1E2F3", "U+1E2F4", "U+1E2F5", "U+1E2F6", "U+1E2F7", "U+1E2F8", "U+1E2F9">>,
       <<"U+1E950", "U+1E951", "U+1E952", "U+1E953", "U+1E954", "U+1E955", "U+1E956", "U+1E957", "U+1E958", "U+1E959">>,
       <<"U+1FBF0", "U+1FBF1", "U+1FBF2", "U+1FBF3", "U+1FBF4", "U+1FBF5", "U+1FBF6", "U+1FBF7", "U+1FBF8", "U+1FBF9">> >>

\* the ASCII digits, which str() writes
Digits == DecimalDigits[1]

DecimalDigitSet == UNION {Range(DecimalDigits[r]) : r \in DOMAIN DecimalDigits}

IsDigit(c) == c \in DecimalDigitSet

DigitVal(c) ==
    (CHOOSE d \in 1 .. 10 : \E r \in DOMAIN DecimalDigits : DecimalDigits[r][d] = c) - 1

RECURSIVE DigitsValue(_)
DigitsValue(s) ==
    IF s = <<>> THEN 0
    ELSE 10 * DigitsValue(SubSeq(s, 1, Len(s) - 1)) + DigitVal(s[Len(s)])

\* the whitespace int() strips from both ends of its argument: the ASCII
\* controls U+0009 to U+000D, the space, and the Unicode spaces
IsSpace(c) ==
    c \in {"\t", "\n", "U+000B", "\f", "\r", " ", "U+0085", "U+00A0", "U+1680",
           "U+2000", "U+2001", "U+2002", "U+2003", "U+2004", "U+2005", "U+2006",
           "U+2007", "U+2008", "U+2009", "U+200A", "U+2028", "U+2029", "U+202F",
           "U+205F", "U+3000"}

\* s.strip()
Strip(s) ==
    LET keep == {i \in DOMAIN s : ~IsSpace(s[i])}
    IN  IF keep = {} THEN <<>>
        ELSE SubSeq(s, CHOOSE i \in keep : \A j \in keep : i <= j,
                       CHOOSE i \in keep : \A j \in keep : j <= i)

\* the digits of an integer literal: decimal digits, single underscores
\* allowed between two of them
IsDigitString(s) ==
    /\ s # <<>>
    /\ \A i \in DOMAIN s : IsDigit(s[i]) \/ s[i] = "_"
    /\ IsDigit(s[1]) /\ IsDigit(s[Len(s)])
    /\ \A i \in 1 .. Len(s) - 1 : ~(s[i] = "_" /\ s[i + 1] = "_")

\* int(s) of a string: surrounding whitespace stripped, an optional sign,
\* then the digits; None where int() raises ValueError
ParseInt(s) ==
    LET t == Strip(s)
        signed == t # <<>> /\ t[1] \in {"+", "-"}
        body == IF signed THEN Tail(t) ELSE t
        value == DigitsValue(SelectSeq(body, IsDigit))
    IN  IF ~IsDigitString(body) THEN None
        ELSE IF signed /\ t[1] = "-" THEN Some(-value)
        ELSE Some(value)

\* str(n) of an integer, as f"{n}" formats it
RECURSIVE FormatInt(_)
FormatInt(n) ==
    IF n < 0 THEN <<"-">> \o FormatInt(-n)
    ELSE IF n < 10 THEN <<Digits[n + 1]>>
    ELSE FormatInt(n \div 10) \o <<Digits[(n % 10) + 1]>>

\* os.path.basename: what follows the last "/"
Basename(s) ==
    LET slashes == {i \in DOMAIN s : s[i] = "/"}
    IN  IF slashes = {} THEN s
        ELSE SubSeq(s, (CHOOSE i \in slashes : \A j \in slashes : j <= i) + 1, Len(s))

\* int(x) of a float given in halves: truncation toward zero
TruncHalves(h) == IF h >= 0 THEN h \div 2 ELSE -((-h) \div 2)

Abs(x) == IF x < 0 THEN -x ELSE x

CeilDiv(a, b) == -((-a) \div b)

Max(a, b) == IF a >= b THEN a ELSE b

Min(a, b) == IF a <= b THEN a ELSE b

(* -------------------------------------------------------- the container *)

Sep == "_mode_"

\* the datasets a timestep group may hold, in the order h5py lists them
FieldUniverse ==
    << <<"Ex", Sep, "-", "1">>,
       <<"Ex", Sep, "0">>,
       <<"Ex", Sep, "0", Sep, "1">>,
       <<"Ex", Sep, "1">>,
       <<"Ex", Sep, "2">>,
       <<"Ex", Sep, "x">>,
       <<"Rho">> >>

\* the full name of the group stored under `key` in the "data" group
GroupPath(key) == <<"/", "d", "a", "t", "a", "/">> \o key

\* item.keys(): the datasets of a group, in the container's listing order
Keys(item) == SelectSeq(FieldUniverse, LAMBDA f : f \in item)

(* ------------------------------------------------ __init__: the catalog *)

\* _get_timesteps: the ids in listing order, or the empty array on any error
get_timesteps(d) ==
    LET parsed == [i \in DOMAIN d.order |-> ParseInt(Basename(GroupPath(d.order[i])))]
    IN  IF ~d.hasData \/ \E i \in DOMAIN parsed : IsNone(parsed[i])
        THEN <<>>
        ELSE [i \in DOMAIN parsed |-> Val(parsed[i])]

\* the loop of __init__: data_items[int(basename(name))] = item, a later
\* group replacing an earlier one of the same id
LoadItems(d) ==
    LET t(i) == Val(ParseInt(Basename(d.order[i])))
        last(i) == \A j \in DOMAIN d.order : t(j) = t(i) => j <= i
    IN  {[t |-> t(i), key |-> d.order[i]] : i \in {j \in DOMAIN d.order : last(j)}}

\* dict(sorted(items)): ascending by timestep id
RECURSIVE SortItems(_)
SortItems(S) ==
    IF S = {} THEN <<>>
    ELSE LET m == CHOOSE e \in S : \A f \in S : e.t <= f.t
         IN  <<m>> \o SortItems(S \ {m})

\* the fields kept: every dataset of the first item, or the requested names
\* present in it, in the order requested
AvailableFields(first_item, field_names) ==
    IF IsNone(field_names) THEN Keys(first_item)
    ELSE SelectSeq(Val(field_names), LAMBDA f : f \in first_item)

HasSep(field) == \E i \in DOMAIN field : field[i] = Sep

LastSep(field) ==
    CHOOSE i \in DOMAIN field :
        field[i] = Sep /\ \A j \in DOMAIN field : field[j] = Sep => j <= i

\* field.rsplit("_mode_", 1)
BaseOf(field) == SubSeq(field, 1, LastSep(field) - 1)

SuffixOf(field) == SubSeq(field, LastSep(field) + 1, Len(field))

\* the text of a dataset name's tokens, for int()
RECURSIVE Chars(_)
Chars(tokens) ==
    IF tokens = <<>> THEN <<>>
    ELSE (IF tokens[1] = Sep THEN <<"_", "m", "o", "d", "e", "_">> ELSE <<tokens[1]>>)
         \o Chars(Tail(tokens))

ModeOf(field) == ParseInt(Chars(SuffixOf(field)))

ModesIndex(modes, base) ==
    IF \E i \in DOMAIN modes : modes[i].base = base
    THEN CHOOSE i \in DOMAIN modes : modes[i].base = base
    ELSE 0

\* the mode-detection loop: modes[base].append(int(mode)), keys in first-seen order
RECURSIVE CollectModes(_, _)
CollectModes(fields, modes) ==
    IF fields = <<>> THEN modes
    ELSE LET f == fields[1]
         IN  IF ~HasSep(f) THEN CollectModes(Tail(fields), modes)
             ELSE LET i == ModesIndex(modes, BaseOf(f))
                      m == Val(ModeOf(f))
                  IN  IF i = 0
                      THEN CollectModes(Tail(fields),
                               Append(modes, [base |-> BaseOf(f), list |-> <<m>>]))
                      ELSE CollectModes(Tail(fields),
                               [modes EXCEPT ![i].list = Append(@, m)])

\* for field in self.modes: self.modes[field].sort()
SortModes(modes) ==
    [i \in DOMAIN modes |->
        [base |-> modes[i].base,
         list |-> SortSeq(modes[i].list, LAMBDA a, b : a < b)]]

(* ------------------------------------------------------ float64 values *)

\* the significant bits of a float64
Precision == 53

\* A finite float64 is a sign and a magnitude, the magnitude being the set
\* of the exponents k whose powers 2^k sum to it; -0.0 and 0.0, which
\* compare equal, are one value.  The grid attributes are float64 arrays
\* (the defaults np.zeros and np.ones are); exponent overflow and subnormals
\* are out of the range of the grids modelled.
Float(neg, bits) == [neg |-> neg /\ bits # {}, bits |-> bits]

Zero == Float(FALSE, {})

Top(S) == CHOOSE k \in S : \A j \in S : j <= k

MagShift(S, n) == {k + n : k \in S}

RECURSIVE MagAdd(_, _)
MagAdd(S, T) ==
    IF T = {} THEN S
    ELSE MagAdd((S \cup T) \ (S \cap T), MagShift(S \cap T, 1))

MagLess(S, T) ==
    LET D == (S \cup T) \ (S \cap T)
    IN  D # {} /\ Top(D) \in T

\* S - T for S >= T
RECURSIVE MagSub(_, _)
MagSub(S, T) ==
    IF T = {} THEN S
    ELSE MagSub((S \cup T) \ (S \cap T), MagShift(T \ S, 1))

RECURSIVE MagMul(_, _)
MagMul(S, T) ==
    IF T = {} THEN {}
    ELSE MagAdd(MagShift(S, Top(T)), MagMul(S, T \ {Top(T)}))

\* long division: the bits p .. lo of R / D, and what remains of R
RECURSIVE MagDivStep(_, _, _, _, _)
MagDivStep(R, D, p, lo, Q) ==
    IF p < lo THEN [q |-> Q, r |-> R]
    ELSE IF MagLess(R, MagShift(D, p)) THEN MagDivStep(R, D, p - 1, lo, Q)
    ELSE MagDivStep(MagSub(R, MagShift(D, p)), D, p - 1, lo, Q \cup {p})

\* round to nearest, ties to even, at Precision significant bits
Round(S) ==
    IF S = {} THEN {}
    ELSE LET cut == Top(S) - (Precision - 1)
             kept == {k \in S : k >= cut}
             guard == (cut - 1) \in S
             sticky == \E k \in S : k < cut - 1
         IN  IF guard /\ (sticky \/ cut \in S) THEN MagAdd(kept, {cut}) ELSE kept

ExactAdd(x, y) ==
    IF x.neg = y.neg THEN Float(x.neg, MagAdd(x.bits, y.bits))
    ELSE IF MagLess(x.bits, y.bits) THEN Float(y.neg, MagSub(y.bits, x.bits))
    ELSE Float(x.neg, MagSub(x.bits, y.bits))

\* x + y
FAdd(x, y) == LET z == ExactAdd(x, y) IN Float(z.neg, Round(z.bits))

\* x - y
FSub(x, y) == FAdd(x, Float(~y.neg, y.bits))

\* x * y
FMul(x, y) == Float(x.neg # y.neg, Round(MagMul(x.bits, y.bits)))

\* x / y for y # 0: the quotient to two bits past the precision, a bit
\* below them standing for a remainder, then rounded
FDiv(x, y) ==
    IF x.bits = {} THEN Zero
    ELSE LET hi == Top(x.bits) - Top(y.bits)
             lo == hi - (Precision + 2)
             d == MagDivStep(x.bits, y.bits, hi, lo, {})
         IN  Float(x.neg # y.neg,
                   Round(IF d.r = {} THEN d.q ELSE d.q \cup {lo - 1}))

RECURSIVE IntBits(_)
IntBits(n) ==
    IF n = 0 THEN {}
    ELSE (IF n % 2 = 1 THEN {0} ELSE {}) \cup MagShift(IntBits(n \div 2), 1)

\* float(n) of a small integer
FloatOfInt(n) == Float(n < 0, IntBits(Abs(n)))

\* the float h / 2
FloatOfHalves(h) == Float(h < 0, MagShift(IntBits(Abs(h)), -1))

RECURSIVE Pow2(_)
Pow2(k) == IF k = 0 THEN 1 ELSE 2 * Pow2(k - 1)

RECURSIVE MagToInt(_)
MagToInt(S) == IF S = {} THEN 0 ELSE Pow2(Top(S)) + MagToInt(S \ {Top(S)})

\* ceil(x) as an integer
CeilInt(x) ==
    LET whole == MagToInt({k \in x.bits : k >= 0})
    IN  IF x.neg THEN -whole
        ELSE IF \E k \in x.bits : k < 0 THEN whole + 1
        ELSE whole

(* ----------------------------------------------------------- get_axes *)

\* the length of np.arange(start, stop, step): ceil((stop - start) / step)
\* in float64, none below zero
ArangeLen(start, stop, step) == Max(0, CeilInt(FDiv(FSub(stop, start), step)))

\* np.arange(start, stop, step): start, then next = start + step, then
\* start + i * (next - start), each operation rounded (where i * delta is
\* exact, as for the grids modelled, a fused multiply-add gives the same)
Arange(start, stop, step) ==
    LET next == FAdd(start, step)
        delta == FSub(next, start)
    IN  [k \in 1 .. ArangeLen(start, stop, step) |->
            IF k = 1 THEN start
            ELSE IF k = 2 THEN next
            ELSE FAdd(start, FMul(FloatOfInt(k - 1), delta))]

\* offset + (shape - 0.5) * spacing
AxisStop(n, off, sp) == FAdd(off, FMul(FloatOfHalves(2 * n - 1), sp))

\* get_axes: one array per dimension
get_axes(data_shape, offset, spacing) ==
    [i \in DOMAIN data_shape |->
        Arange(offset[i], AxisStop(data_shape[i], offset[i], spacing[i]), spacing[i])]

\* what get_axes raises, at the first dimension that raises: an index past
\* the attribute (IndexError); a zero step, whose length np.arange cannot
\* compute from the quotient of two numpy scalars (ValueError)
AxesError(data_shape, offset, spacing) ==
    LET bad == {i \in DOMAIN data_shape :
                   i > Len(offset) \/ i > Len(spacing) \/ spacing[i] = Zero}
    IN  IF bad = {} THEN None
        ELSE LET i == CHOOSE j \in bad : \A k \in bad : j <= k
             IN  IF i > Len(offset) \/ i > Len(spacing)
                 THEN Some("IndexError")
                 ELSE Some("ValueError")

\* np.zeros
Zeros(n) == [i \in 1 .. n |-> Zero]

\* np.ones
Ones(n) == [i \in 1 .. n |-> FloatOfInt(1)]

AttrGet(attr, default) == IF IsNone(attr) THEN default ELSE Val(attr)

(* ----------------------------------------------------------- selections *)

Slice(start, stop, step) ==
    [kind |-> "slice", start |-> start, stop |-> stop, step |-> step]

Index(i) == [kind |-> "int", i |-> i]

\* slice(None)
FullSlice == Slice(None, None, None)

\* x or d
Or(x, d) == IF IsNone(x) \/ x = Some(0) THEN d ELSE Val(x)

\* None if x is None else x * 2 + add
Twice(x, add) == IF IsNone(x) THEN None ELSE Some(Val(x) * 2 + add)

\* real_sel: the selection with the second dimension's start and stop
\* doubled and its step doubled (the even positions)
RealSel(selection) ==
    IF Len(selection) > 1
    THEN [selection EXCEPT ![2] =
            IF @.kind = "slice"
            THEN Slice(Twice(@.start, 0), Twice(@.stop, 0), Some(Or(@.step, 1) * 2))
            ELSE Index(@.i * 2)]
    ELSE selection

\* imag_sel: the same with the offset of one (the odd positions)
ImagSel(selection) ==
    IF Len(selection) > 1
    THEN [selection EXCEPT ![2] =
            IF @.kind = "slice"
            THEN Slice(Some(Or(@.start, 0) * 2 + 1), Twice(@.stop, 1),
                       Some(Or(@.step, 1) * 2))
            ELSE Index(@.i * 2 + 1)]
    ELSE selection

\* slice.indices(extent), as the container resolves a slice: a negative
\* bound counts from the end, both are clipped to the extent
Clip(x, extent, default) ==
    IF IsNone(x) THEN default
    ELSE IF Val(x) < 0 THEN Max(0, Val(x) + extent)
    ELSE Min(Val(x), extent)

\* the on-disk indices a selector of one dimension touches
Indices(sel, extent) ==
    IF sel.kind = "int"
    THEN {IF sel.i < 0 THEN sel.i + extent ELSE sel.i}
    ELSE LET start == Clip(sel.start, extent, 0)
             stop == Clip(sel.stop, extent, extent)
             step == IF IsNone(sel.step) THEN 1 ELSE Val(sel.step)
         IN  {i \in start .. stop - 1 : (i - start) % step = 0}

\* a selector the container rejects: a step below one, an index out of range
BadSelector(sel, extent) ==
    IF sel.kind = "int"
    THEN sel.i >= extent \/ sel.i < -extent
    ELSE ~IsNone(sel.step) /\ Val(sel.step) < 1

\* the shape of a selection from a dataset of shape `shape`: one extent per
\* sliced dimension, indexed dimensions dropped
RECURSIVE SelShape(_, _)
SelShape(selection, shape) ==
    IF selection = <<>> THEN <<>>
    ELSE (IF selection[1].kind = "int" THEN <<>>
          ELSE <<Cardinality(Indices(selection[1], shape[1]))>>)
         \o SelShape(Tail(selection), Tail(shape))

\* whether the container's read_direct accepts a selection of shape `src`
\* for a buffer of shape `dest`: aligned from the last dimension, each
\* selected extent is one or the buffer's
Broadcasts(src, dest) ==
    /\ Len(src) <= Len(dest)
    /\ \A k \in 1 .. Len(src) :
          LET t == src[Len(src) + 1 - k]
          IN  t = 1 \/ t = dest[Len(dest) + 1 - k]

\* what item[name].read_direct(buffer, source_sel=selection) raises: the
\* selectors are resolved dimension by dimension, a slice of step below one
\* is a ValueError and an index out of range an IndexError
ReadError(selection, shape) ==
    LET bad == {i \in DOMAIN selection : BadSelector(selection[i], shape[i])}
    IN  IF bad # {}
        THEN (IF selection[CHOOSE i \in bad : \A j \in bad : i <= j].kind = "int"
              THEN Some("IndexError")
              ELSE Some("ValueError"))
        ELSE IF ~Broadcasts(SelShape(selection, shape), shape)
        THEN Some("TypeError")
        ELSE None

(* ------------------------------------------------- get_field_at_time *)

\* a membership test that finds every name
ContainsAny(h, item, name) == h = "open"

\* name in item: a group of a closed container holds nothing
Contains(h, item, name) == h = "open" /\ name \in item

\* an argmin that returns the last index of the least element
ArgMinLast(a) ==
    CHOOSE i \in DOMAIN a :
        /\ \A j \in DOMAIN a : a[i] <= a[j]
        /\ \A j \in DOMAIN a : j > i => a[j] > a[i]

\* np.argmin: the first index of the least element
ArgMin(a) ==
    CHOOSE i \in DOMAIN a :
        /\ \A j \in DOMAIN a : a[i] <= a[j]
        /\ \A j \in DOMAIN a : j < i => a[j] > a[i]

\* the stored timestep read for int(float(timestep)) = t: t itself when
\* stored, else the nearest of the ascending keys
ResolveTimestep(data_items, t) ==
    LET available == [i \in DOMAIN data_items |-> data_items[i].t]
    IN  IF \E i \in DOMAIN available : available[i] = t THEN t
        ELSE available[ArgMin([i \in DOMAIN available |-> Abs(available[i] - t)])]

\* self.data_items[t_val]
ItemKey(data_items, t) ==
    data_items[CHOOSE i \in DOMAIN data_items : data_items[i].t = t].key

\* tuple(subset.get(i, slice(None)) for i in range(len(self.data_shape)))
Selection(subset, data_shape) ==
    [i \in DOMAIN data_shape |->
        IF i \in DOMAIN subset.dims /\ ~IsNone(subset.dims[i])
        THEN Val(subset.dims[i]) ELSE FullSlice]

\* f"{field}_mode_{mode}"
ModeField(field, mode) == field \o <<Sep>> \o FormatInt(mode)

Read(ds, sel, fn, arg) == [ds |-> ds, sel |-> sel, w |-> [fn |-> fn, arg |-> arg]]

\* the reads of one mode with the imaginary part weighted by the cosine
ModeReadsCosOnly(field, mode, selection, theta) ==
    <<Read(ModeField(field, mode), RealSel(selection), "cos", mode * theta)>>
    \o (IF mode > 0
        THEN <<Read(ModeField(field, mode), ImagSel(selection), "cos", mode * theta)>>
        ELSE <<>>)

\* the reads of one mode: the real part weighted cos(mode * theta) and, for
\* a mode above zero, the imaginary part weighted sin(mode * theta)
ModeReads(field, mode, selection, theta) ==
    <<Read(ModeField(field, mode), RealSel(selection), "cos", mode * theta)>>
    \o (IF mode > 0
        THEN <<Read(ModeField(field, mode), ImagSel(selection), "sin", mode * theta)>>
        ELSE <<>>)

\* an accumulation loop that stops at the first absent mode
RECURSIVE ReconstructBreak(_, _, _, _, _, _)
ReconstructBreak(h, item, field, list, selection, theta) ==
    IF list = <<>> \/ ~Contains(h, item, ModeField(field, list[1])) THEN <<>>
    ELSE ModeReads(field, list[1], selection, theta)
         \o ReconstructBreak(h, item, field, Tail(list), selection, theta)

\* the accumulation loop: every known mode whose dataset the item holds
RECURSIVE Reconstruct(_, _, _, _, _, _)
Reconstruct(h, item, field, list, selection, theta) ==
    IF list = <<>> THEN <<>>
    ELSE (IF Contains(h, item, ModeField(field, list[1]))
          THEN ModeReads(field, list[1], selection, theta)
          ELSE <<>>)
         \o Reconstruct(h, item, field, Tail(list), selection, theta)

Raised(type, msg, t_val) ==
    [status |-> "error", error |-> Some([type |-> type, msg |-> msg]),
     t_val |-> t_val, shape |-> <<>>, plan |-> <<>>]

\* the buffer returned: its shape and the reads that filled it, in order
Returned(t_val, shape, plan) ==
    [status |-> "ok", error |-> None, t_val |-> Some(t_val), shape |-> shape,
     plan |-> plan]

\* the reads are made in order; the first one the container rejects raises,
\* and the reads after it are never issued (plan: the reads completed)
ReadAll(t_val, shape, plan) ==
    LET bad == {i \in DOMAIN plan : ~IsNone(ReadError(plan[i].sel, shape))}
    IN  IF bad = {} THEN Returned(t_val, shape, plan)
        ELSE LET first == CHOOSE i \in bad : \A j \in bad : i <= j
             IN  [Raised(Val(ReadError(plan[first].sel, shape)), "read", Some(t_val))
                     EXCEPT !.plan = SubSeq(plan, 1, first - 1)]

get_field_at_time(r, h, d, field, timestep, subset) ==
    IF timestep.kind # "num" THEN Raised("ValueError", "Invalid timestep provided", None)
    ELSE
    LET t_val == ResolveTimestep(r.data_items, TruncHalves(timestep.h))
        item == d.items[ItemKey(r.data_items, t_val)]
        theta == subset.theta
        selection == Selection(subset, r.data_shape)
        mi == ModesIndex(r.modes, field)
    IN  IF Contains(h, item, field)
        THEN ReadAll(t_val, d.shape, <<Read(field, selection, "id", 0)>>)
        ELSE IF r.is_cylindrical /\ mi # 0
        THEN IF ~IsNone(theta)
             THEN IF ~Contains(h, item, ModeField(field, r.modes[mi].list[1]))
                  THEN Raised("ValueError", "Field mode not found", Some(t_val))
                  ELSE ReadAll(t_val, d.shape,
                           Reconstruct(h, item, field, r.modes[mi].list, selection,
                                       Val(theta)))
             ELSE IF ~Contains(h, item, ModeField(field, 0))
                  THEN Raised("ValueError", "Field mode 0 not found", Some(t_val))
                  ELSE ReadAll(t_val, d.shape,
                           <<Read(ModeField(field, 0), selection, "id", 0)>>)
        ELSE Raised("ValueError", "Field not found in timestep", Some(t_val))

(* ------------------------------------------------------- introspection *)

\* a get_available_fields that returns the raw field list
get_available_fields_raw(r) == r.available_fields

get_available_fields(r) ==
    IF r.is_cylindrical THEN [i \in DOMAIN r.modes |-> r.modes[i].base]
    ELSE r.available_fields

get_info(r) ==
    [file_path |-> r.file_path, shape |-> r.data_shape, offset |-> r.offset,
     spacing |-> r.spacing, timesteps |-> r.timesteps,
     is_cylindrical |-> r.is_cylindrical,
     available_fields |-> get_available_fields(r),
     modes |-> IF r.is_cylindrical THEN Some(r.modes) ELSE None]

(* ------------------------------------------------------------ __init__ *)

NoReader == [constructed |-> FALSE]

InitFailure(cause) ==
    [ok |-> FALSE, reader |-> NoReader,
     error |-> Some([type |-> "Exception",
                     msg |-> "Error initializing FastFieldReader", cause |-> cause])]

Constructed(r) == [ok |-> TRUE, reader |-> r, error |-> None]

\* the constructor from the opening of the container on: the catalog, the
\* grid metadata and the mode index, or the first exception raised on the way
Construct(d, path, field_names) ==
    IF ~d.hasData THEN InitFailure("KeyError")
    ELSE IF \E i \in DOMAIN d.order : IsNone(ParseInt(Basename(d.order[i])))
    THEN InitFailure("ValueError")
    ELSE
    LET data_items == SortItems(LoadItems(d))
    IN  IF data_items = <<>> THEN InitFailure("StopIteration")
        ELSE
        LET first_item == d.items[data_items[1].key]
            available_fields == AvailableFields(first_item, field_names)
        IN  IF available_fields = <<>> THEN InitFailure("IndexError")
            ELSE
            LET data_shape == d.shape
                offset == AttrGet(d.offsetAttr, Zeros(Len(data_shape)))
                spacing == AttrGet(d.spacingAttr, Ones(Len(data_shape)))
                axes_error == AxesError(data_shape, offset, spacing)
                is_cylindrical ==
                    \E i \in DOMAIN available_fields : HasSep(available_fields[i])
            IN  IF ~IsNone(axes_error) THEN InitFailure(Val(axes_error))
                ELSE IF \E i \in DOMAIN available_fields :
                            /\ HasSep(available_fields[i])
                            /\ IsNone(ModeOf(available_fields[i]))
                THEN InitFailure("ValueError")
                ELSE Constructed(
                    [constructed |-> TRUE,
                     file_path |-> path,
                     timesteps |-> get_timesteps(d),
                     data_items |-> data_items,
                     available_fields |-> available_fields,
                     data_shape |-> data_shape,
                     offset |-> offset,
                     spacing |-> spacing,
                     axes_coords |-> get_axes(data_shape, offset, spacing),
                     is_cylindrical |-> is_cylindrical,
                     modes |-> IF is_cylindrical
                               THEN SortModes(CollectModes(available_fields, <<>>))
                               ELSE <<>>])

\* an except clause that forgets the handle
LeakOnFailure(h) == h

\* self.h5file.close() in the except clause of __init__
CloseOnFailure(h) == "closed"

\* a close() without the guard: closing a closed handle raises
close_unguarded(h) == [handle |-> "closed", raised |-> h # "open"]

\* close(): an open handle is released; with the handle already closed
\* (self.h5file is falsy) nothing is called and nothing raises
close(h) ==
    IF h = "open" THEN [handle |-> "closed", raised |-> FALSE]
    ELSE [handle |-> h, raised |-> FALSE]

(* -------------------------------------------------------------- actions *)

Outcome(op, args, status, error, value) ==
    [op |-> op, args |-> args, status |-> status, error |-> error, value |-> value]

NoCall == [status |-> "none"]

\* FastFieldReader(path, field_names)
Open(path, field_names) ==
    /\ reader = NoReader
    /\ LET args == Some([path |-> path, field_names |-> field_names])
       IN  IF path # disk.path
           THEN /\ result' = Outcome("open", args, "error",
                                     Some([type |-> "FileNotFoundError",
                                           msg |-> "not found", cause |-> "none"]),
                                     None)
                /\ UNCHANGED <<reader, handle>>
           ELSE LET c == Construct(disk, path, field_names)
                IN  IF c.ok
                    THEN /\ reader' = c.reader
                         /\ handle' = "open"
                         /\ result' = Outcome("open", args, "ok", None, None)
                    ELSE /\ reader' = NoReader
                         /\ handle' = CloseOnFailure("open")
                         /\ result' = Outcome("open", args, "error", c.error, None)
    /\ UNCHANGED <<disk, closes, got>>

\* reader.get_field_at_time(field, timestep, subset)
GetFieldAtTime(field, timestep, subset) ==
    /\ reader # NoReader
    /\ LET out == get_field_at_time(reader, handle, disk, field, timestep, subset)
       IN  /\ got' = [field |-> field, timestep |-> timestep, subset |-> subset,
                      h |-> handle, out |-> out]
           /\ result' = Outcome("get", None, out.status, out.error, None)
    /\ UNCHANGED <<disk, reader, handle, closes>>

\* what close() does to the reader, under the name of the call that made it
CloseCall(op) ==
    /\ reader # NoReader
    /\ closes < MaxCloses
    /\ closes' = closes + 1
    /\ handle' = close(handle).handle
    /\ result' = Outcome(op, None, IF close(handle).raised THEN "error" ELSE "ok",
                         None, None)
    /\ UNCHANGED <<disk, reader, got>>

\* reader.close()
Close == CloseCall("close")

\* leaving the with block: __exit__ calls close()
Exit == CloseCall("exit")

\* reader.get_info()
GetInfo ==
    /\ reader # NoReader
    /\ result' = Outcome("get_info", None, "ok", None, Some(get_info(reader)))
    /\ UNCHANGED <<disk, reader, handle, closes, got>>

\* reader.get_available_fields()
GetAvailableFields ==
    /\ reader # NoReader
    /\ result' = Outcome("get_available_fields", None, "ok", None,
                         Some(get_available_fields(reader)))
    /\ UNCHANGED <<disk, reader, handle, closes, got>>

\* reader.get_axes()
GetAxes ==
    /\ reader # NoReader
    /\ result' = Outcome("get_axes", None, "ok", None,
                         Some(get_axes(reader.data_shape, reader.offset, reader.spacing)))
    /\ UNCHANGED <<disk, reader, handle, closes, got>>

(* ------------------------------------------------------------ inputs *)

Rho == <<"Rho">>
Ex0 == <<"Ex", Sep, "0">>
Ex1 == <<"Ex", Sep, "1">>
Ex2 == <<"Ex", Sep, "2">>
ExBad == <<"Ex", Sep, "x">>
ExNeg == <<"Ex", Sep, "-", "1">>
ExTwice == <<"Ex", Sep, "0", Sep, "1">>

\* the sequences of at most n distinct elements of K
Orders(K, n) ==
    {s \in UNION {[1 .. m -> K] : m \in 0 .. n} :
        \A i, j \in DOMAIN s : i # j => s[i] # s[j]}

\* a container: its groups in listing order, the datasets of each, and the
\* shape and grid attributes its datasets carry
Disk(order, items, shape, offsetAttr, spacingAttr) ==
    [path |-> "fields.h5", hasData |-> TRUE, order |-> order, items |-> items,
     shape |-> shape, offsetAttr |-> offsetAttr, spacingAttr |-> spacingAttr]

\* the containers of at most n groups named from K, each holding one of L
Disks(K, n, L, Shapes, Offsets, Spacings) ==
    UNION {{Disk(o, it, sh, off, sp) :
                it \in [Range(o) -> L], sh \in Shapes, off \in Offsets,
                sp \in Spacings} : o \in Orders(K, n)}

\* a container without the top-level "data" group
NoDataDisk ==
    [path |-> "fields.h5", hasData |-> FALSE, order |-> <<>>,
     items |-> <<>>, shape |-> <<2>>, offsetAttr |-> None, spacingAttr |-> None]

\* requested timesteps: the numbers -1/2 .. MaxT + 1/2 by halves, and a
\* string that is no number
Timesteps ==
    {[kind |-> "num", h |-> h] : h \in -1 .. 2 * MaxT + 1}
    \cup {[kind |-> "bad", h |-> 0]}

NoSubset == [dims |-> <<>>, theta |-> None]

Paths == {"fields.h5", "missing.h5"}

Idle == Outcome("none", None, "ok", None, None)

(* ------------------------------------------------ the reading lifecycle *)

ReadSubsets ==
    {NoSubset,
     [dims |-> <<>>, theta |-> Some(0)],
     [dims |-> <<>>, theta |-> Some(1)],
     [dims |-> <<None, Some(Slice(Some(0), Some(1), None))>>, theta |-> Some(0)],
     [dims |-> <<Some(Slice(Some(0), Some(2), None))>>, theta |-> None],
     [dims |-> <<None, Some(Index(0))>>, theta |-> Some(1)],
     [dims |-> <<None, Some(Slice(None, None, Some(0)))>>, theta |-> Some(0)],
     [dims |-> <<Some(Slice(None, None, Some(-1)))>>, theta |-> None]}

ReadFields == {Rho, <<"Ex">>, Ex1, <<"Nope">>}

ReadTimesteps == {[kind |-> "num", h |-> 3], [kind |-> "num", h |-> 4]}

ReadFilters == {None, Some(<<Ex2, Ex1>>)}

ReadDisks ==
    Disks({<<"0", "0">>, <<"0", "2">>}, MaxGroups,
          {{Rho, Ex0, Ex1, Ex2}, {Ex1, Ex2}, {Rho, Ex0, Ex2}, {Ex0}},
          {<<3>>, <<2, 2>>}, {None}, {None})

Init ==
    /\ disk \in ReadDisks
    /\ reader = NoReader
    /\ handle = "none"
    /\ closes = 0
    /\ result = Idle
    /\ got = NoCall

OpenRead == \E path \in Paths, f \in ReadFilters : Open(path, f)

Get ==
    \E f \in ReadFields, t \in ReadTimesteps, s \in ReadSubsets :
        GetFieldAtTime(f, t, s)

Next == OpenRead \/ Get \/ Close \/ Exit

Spec == Init /\ [][Next]_vars

(* ------------------------------------------- what a call read, and how *)

\* the last call of get_field_at_time, made while the handle was open
GotOpen == got # NoCall /\ got.h = "open" /\ got.timestep.kind = "num"

\* the datasets of the group the call resolved its timestep to
GotItem == disk.items[ItemKey(reader.data_items, Val(got.out.t_val))]

\* the modes known for a base field name
KnownModes(field) ==
    LET i == ModesIndex(reader.modes, field)
    IN  IF i = 0 THEN <<>> ELSE reader.modes[i].list

\* the call named a mode group, and no dataset of the resolved timestep
IsModeCall == GotOpen /\ got.field \notin GotItem /\ KnownModes(got.field) # <<>>

\* the call named neither a dataset of the resolved timestep nor a mode group
IsUnknownCall == GotOpen /\ got.field \notin GotItem /\ KnownModes(got.field) = <<>>

\* the known modes whose dataset the resolved timestep holds
PresentModes ==
    {m \in Range(KnownModes(got.field)) : ModeField(got.field, m) \in GotItem}

\* cos(0) = 1, and a plain copy
WeightIsOne(w) == w.fn = "id" \/ (w.fn = "cos" /\ w.arg = 0)

\* sin(0) = 0
WeightIsZero(w) == w.fn = "sin" /\ w.arg = 0

\* the on-disk samples of one read
Samples(read, shape) ==
    [ds |-> read.ds,
     idx |-> [i \in DOMAIN read.sel |-> Indices(read.sel[i], shape[i])]]

\* the reads that contribute to a returned buffer
Contributing(out) ==
    {Samples(out.plan[i], out.shape) :
        i \in {j \in DOMAIN out.plan : ~WeightIsZero(out.plan[j].w)}}

\* two calls returned the same data: the same samples, each with weight one
SameData(a, b) ==
    /\ a.status = "ok" /\ b.status = "ok"
    /\ a.shape = b.shape
    /\ Contributing(a) = Contributing(b)
    /\ \A i \in DOMAIN a.plan : WeightIsOne(a.plan[i].w) \/ WeightIsZero(a.plan[i].w)
    /\ \A i \in DOMAIN b.plan : WeightIsOne(b.plan[i].w) \/ WeightIsZero(b.plan[i].w)

\* the same call without the angle selector
WithoutTheta ==
    get_field_at_time(reader, got.h, disk, got.field, got.timestep,
                      [got.subset EXCEPT !.theta = None])

(* ------------------------------------------------------------------ C2 *)

\* C2 as stated: where both succeed, a mode-decomposed field read with
\* theta = 0 returns the data of the read without an angle selector (the
\* same samples of mode 0 alone, with weight one).
C2_ThetaZeroIsModeZero ==
    (IsModeCall /\ got.subset.theta = Some(0)
        /\ got.out.status = "ok" /\ WithoutTheta.status = "ok")
    => SameData(got.out, WithoutTheta)

\* C2 amended: with theta = 0 a successful read sums the real part of every
\* known mode the resolved timestep holds, each with weight one and read at
\* the even positions of the second dimension; every imaginary part has
\* weight zero; and the result is the data of the read without an angle
\* selector when mode 0 is the only mode read and the shape has fewer than
\* two dimensions.
C2_ThetaZeroSumsRealParts ==
    (IsModeCall /\ got.subset.theta = Some(0) /\ got.out.status = "ok")
    => LET plan == got.out.plan
           sel == Selection(got.subset, reader.data_shape)
       IN  /\ \A i \in DOMAIN plan :
                 \/ plan[i].w.fn = "cos" /\ WeightIsOne(plan[i].w)
                 \/ plan[i].w.fn = "sin" /\ WeightIsZero(plan[i].w)
           /\ Contributing(got.out) =
                 {Samples([ds |-> ModeField(got.field, m), sel |-> RealSel(sel)],
                          got.out.shape) : m \in PresentModes}
           /\ (PresentModes = {0} /\ Len(reader.data_shape) < 2)
                 => SameData(got.out, WithoutTheta)

\* a read with theta = 0 to which more than one mode contributed
C2_Witness ==
    /\ IsModeCall /\ got.subset.theta = Some(0) /\ got.out.status = "ok"
    /\ Cardinality(PresentModes) > 1
    /\ Len(reader.data_shape) > 1

(* ------------------------------------------------------------------ C4 *)

\* a call that must succeed: a numeric timestep, no subset, and a dataset
\* of the resolved timestep or a mode group whose mode 0 it holds
ValidCall(g) ==
    /\ g.timestep.kind = "num" /\ g.subset = NoSubset
    /\ LET item == disk.items[ItemKey(reader.data_items, Val(g.out.t_val))]
       IN  \/ g.field \in item
           \/ KnownModes(g.field) # <<>> /\ ModeField(g.field, 0) \in item

\* C4: a call with an unknown field name fails with the field-not-found error;
\* no call of get_field_at_time changes the catalog, the field list, the
\* metadata, the mode map or the handle; and every valid call made while the
\* handle is open succeeds, whatever calls failed before it.
C4_UnknownFieldFails ==
    /\ [](IsUnknownCall =>
            /\ got.out.status = "error"
            /\ Val(got.out.error) =
                  [type |-> "ValueError", msg |-> "Field not found in timestep"])
    /\ [][result'.op = "get" =>
            /\ reader' = reader /\ handle' = handle /\ disk' = disk
            /\ (handle = "open" /\ ValidCall(got')) => got'.out.status = "ok"]_vars

\* an unknown field was asked of an open reader, and the call failed
C4_Witness ==
    /\ IsUnknownCall /\ got.out.status = "error"
    /\ result.op = "get" /\ handle = "open" /\ reader # NoReader

(* ------------------------------------------------------------------ C6 *)

\* C6: no call of close() or __exit__ raises; the first releases the handle,
\* every later one changes nothing; none touches the reader's catalog or a
\* buffer returned by an earlier read.
C6_CloseIsIdempotent ==
    [][result'.op \in {"close", "exit"} =>
          /\ result'.status = "ok"
          /\ closes = 0 => (handle = "open" /\ handle' = "closed")
          /\ closes > 0 => (handle = "closed" /\ handle' = handle)
          /\ reader' = reader /\ got' = got /\ disk' = disk]_vars

\* a reader closed twice, the second time by __exit__, with a buffer read
\* before the first close still in the caller's hands
C6_Witness ==
    /\ closes = 2 /\ result.op = "exit" /\ handle = "closed"
    /\ got # NoCall /\ got.h = "open" /\ got.out.status = "ok"

(* ----------------------------------------------------------------- C10 *)

\* the datasets a returned buffer was read from
PlanDatasets == {got.out.plan[i].ds : i \in DOMAIN got.out.plan}

ModeNotFound ==
    /\ got.out.status = "error"
    /\ Val(got.out.error) = [type |-> "ValueError", msg |-> "Field mode not found"]

\* C10 as stated: with an angle given the call fails with the field-not-found
\* error when the resolved timestep has no mode-0 dataset, and otherwise
\* skips every known mode whose dataset is absent.
C10_ModeZeroRequired ==
    (IsModeCall /\ ~IsNone(got.subset.theta))
    => /\ ModeField(got.field, 0) \notin GotItem => ModeNotFound
       /\ ModeField(got.field, 0) \in GotItem =>
             /\ ~ModeNotFound
             /\ got.out.status = "ok" =>
                   PlanDatasets = {ModeField(got.field, m) : m \in PresentModes}

\* C10 amended: with an angle given the call fails with the field-not-found
\* error when the resolved timestep lacks the dataset of the smallest known
\* mode of the field (mode 0 only if mode 0 was among the fields at open);
\* otherwise every other known mode whose dataset is absent is skipped and
\* the modes present are all accumulated.
C10_SampleModeRequired ==
    (IsModeCall /\ ~IsNone(got.subset.theta))
    => LET sample == ModeField(got.field, KnownModes(got.field)[1])
       IN  /\ sample \notin GotItem => ModeNotFound
           /\ sample \in GotItem =>
                 /\ ~ModeNotFound
                 /\ got.out.status = "ok" =>
                       PlanDatasets = {ModeField(got.field, m) : m \in PresentModes}

\* a reconstruction that skipped an absent mode and accumulated a later one
C10_Witness ==
    /\ IsModeCall /\ ~IsNone(got.subset.theta) /\ got.out.status = "ok"
    /\ \E m, n \in Range(KnownModes(got.field)) :
          m < n /\ m \notin PresentModes /\ n \in PresentModes

(* ------------------------------------------- the timestep resolution *)

TimeDisks ==
    Disks({<<"-", "1">>, <<"0", "0">>, <<"0", "2">>, <<"0", "3">>}, MaxGroups, {{Rho}},
          {<<3>>}, {None}, {None})

InitTime ==
    /\ disk \in TimeDisks
    /\ reader = NoReader
    /\ handle = "none"
    /\ closes = 0
    /\ result = Idle
    /\ got = NoCall

OpenTime == \E path \in Paths : Open(path, None)

GetTime == \E t \in Timesteps : GetFieldAtTime(Rho, t, NoSubset)

NextTime == OpenTime \/ GetTime \/ Close

SpecTime == InitTime /\ [][NextTime]_vars

\* the ids of the stored timestep groups
StoredIds == {Val(ParseInt(Basename(disk.order[i]))) : i \in DOMAIN disk.order}

\* the request is exactly a stored id
ExactlyStored == got.timestep.h % 2 = 0 /\ (got.timestep.h \div 2) \in StoredIds

\* s is a stored id nearest to the value of v halves, the smaller of two
\* equally near
NearestStored(s, v) ==
    /\ s \in StoredIds
    /\ \A u \in StoredIds :
          /\ Abs(2 * s - v) <= Abs(2 * u - v)
          /\ Abs(2 * s - v) = Abs(2 * u - v) => s <= u

(* ------------------------------------------------------------------ C1 *)

\* C1 as stated: a numeric request that is not exactly a stored id reads
\* the stored id nearest to the requested value, the smaller on a tie.
C1_NearestToRequest ==
    (GotOpen /\ got.out.status = "ok" /\ ~ExactlyStored)
    => NearestStored(Val(got.out.t_val), got.timestep.h)

\* C1 amended: the request is first truncated toward zero to an integer
\* (int(float(timestep))); if that integer is a stored id it is read, and
\* otherwise the stored id nearest to the truncated value, the smaller on a
\* tie.
C1_NearestToTruncation ==
    (GotOpen /\ got.out.status = "ok")
    => LET w == IF got.timestep.h >= 0 THEN got.timestep.h \div 2
                ELSE -((-got.timestep.h) \div 2)
       IN  /\ w \in StoredIds => Val(got.out.t_val) = w
           /\ NearestStored(Val(got.out.t_val), 2 * w)

\* a request between two stored ids, equally near to both after truncation
C1_Witness ==
    /\ GotOpen /\ got.out.status = "ok" /\ ~ExactlyStored
    /\ \E u \in StoredIds :
          /\ u # Val(got.out.t_val)
          /\ Abs(u - got.timestep.h \div 2) =
                Abs(Val(got.out.t_val) - got.timestep.h \div 2)

(* ----------------------------------------------------------- the catalog *)

NameDisks ==
    Disks({<<"0", "0">>, <<"0", "2">>, <<"2">>, <<"1", "0">>, <<"x">>,
           <<"-", "1">>, <<"\f", "2">>, <<"1", "_", "0">>, <<"1", "_">>,
           <<"U+FF11", "U+0660">>}, MaxGroups,
          {{Rho, Ex0, Ex1}}, {<<2>>}, {None}, {None})

LayoutDisks ==
    Disks({<<"0", "0">>}, MaxGroups,
          {{}, {Rho}, {Rho, Ex0, Ex1}, {ExBad, Rho}, {ExTwice, Ex1}, {Ex0, Ex2},
           {ExNeg, Ex0}},
          {<<2>>, <<2, 2>>}, {None, Some(<<FloatOfHalves(1)>>)},
          {None, Some(<<FloatOfHalves(1), Zero>>)})

CatalogFilters == {None, Some(<<Rho>>), Some(<<Ex1, Ex0>>), Some(<<<<"Nope">>>>)}

InitOpen ==
    /\ disk \in NameDisks \cup LayoutDisks \cup {NoDataDisk}
    /\ reader = NoReader
    /\ handle = "none"
    /\ closes = 0
    /\ result = Idle
    /\ got = NoCall

OpenCatalog == \E path \in Paths, f \in CatalogFilters : Open(path, f)

NextOpen == OpenCatalog \/ GetInfo \/ GetAvailableFields \/ GetAxes \/ Close

SpecOpen == InitOpen /\ [][NextOpen]_vars

\* the last operation was an open of the existing path
Opened == result.op = "open" /\ Val(result.args).path = disk.path

\* all datasets of all groups
AllDatasets == UNION {disk.items[k] : k \in DOMAIN disk.items}

\* a group whose name int() does not accept
BadName == \E i \in DOMAIN disk.order : IsNone(ParseInt(disk.order[i]))

(* ------------------------------------------------------------------ C5 *)

\* C5: an open that fails after the container was opened (no "data" group,
\* a group name that is no integer, no group at all, no requested field
\* present, metadata that cannot be read, a mode suffix that is no integer)
\* leaves the handle closed and no reader, and raises the initialization
\* failure carrying the cause.
C5_FailedOpenClosesHandle ==
    Opened =>
        /\ (\/ ~disk.hasData
            \/ BadName
            \/ disk.order = <<>>
            \/ /\ ~IsNone(Val(result.args).field_names)
               /\ Range(Val(Val(result.args).field_names)) \cap AllDatasets = {}
            \/ /\ IsNone(Val(result.args).field_names)
               /\ \A k \in DOMAIN disk.items : ExBad \in disk.items[k])
           => result.status = "error"
        /\ result.status = "error" =>
              /\ handle = "closed"
              /\ reader = NoReader
              /\ Val(result.error).type = "Exception"
              /\ Val(result.error).msg = "Error initializing FastFieldReader"
              /\ Val(result.error).cause \in
                    {"KeyError", "ValueError", "StopIteration", "IndexError"}

\* an open that failed on a mode suffix that is no integer, after the
\* catalog and the metadata were read
C5_Witness ==
    /\ Opened /\ result.status = "error" /\ handle = "closed"
    /\ ~BadName /\ disk.order # <<>> /\ IsNone(Val(result.args).field_names)
    /\ ExBad \in AllDatasets
    /\ Val(result.error).cause = "ValueError"

(* ------------------------------------------------------------------ C7 *)

IsAscending(seq) == \A i, j \in DOMAIN seq : i < j => seq[i] <= seq[j]

\* C7: after a successful open the timesteps attribute, and the "timesteps"
\* entry of get_info, are in ascending order.
C7_TimestepsAscending ==
    /\ reader # NoReader => IsAscending(reader.timesteps)
    /\ result.op = "get_info" => IsAscending(Val(result.value).timesteps)

(* ------------------------------------------------------------------ C8 *)

\* the name ends in the separator and an integer
HasModeSuffix(name) == HasSep(name) /\ ~IsNone(ModeOf(name))

SepCount(name) == Cardinality({i \in DOMAIN name : name[i] = Sep})

\* C8 as stated: get_available_fields returns the base names when the
\* dataset is cylindrical and the field list otherwise, and no name it
\* returns ends in a _mode_N suffix.
C8_NoModeSuffix ==
    result.op = "get_available_fields" =>
        /\ reader.is_cylindrical =>
              Range(Val(result.value)) =
                 {BaseOf(f) : f \in {g \in Range(reader.available_fields) : HasSep(g)}}
        /\ ~reader.is_cylindrical => Val(result.value) = reader.available_fields
        /\ \A name \in Range(Val(result.value)) : ~HasModeSuffix(name)

\* C8 amended: get_available_fields returns, when the dataset is
\* cylindrical, each available field name that contains the separator with
\* its last _mode_N suffix removed, once each, and otherwise the field list;
\* a name it returns ends in a _mode_N suffix only if an available field
\* name contains the separator more than once.
C8_LastSuffixRemoved ==
    result.op = "get_available_fields" =>
        LET names == Val(result.value)
        IN  /\ reader.is_cylindrical =>
                  /\ Range(names) =
                        {BaseOf(f) :
                            f \in {g \in Range(reader.available_fields) : HasSep(g)}}
                  /\ \A i, j \in DOMAIN names : i # j => names[i] # names[j]
            /\ ~reader.is_cylindrical => names = reader.available_fields
            /\ \A name \in Range(names) :
                  HasModeSuffix(name) =>
                     \E f \in Range(reader.available_fields) :
                        SepCount(f) > 1 /\ BaseOf(f) = name

\* the fields of a cylindrical dataset with two modes of one base and a
\* plain field beside them
C8_Witness ==
    /\ result.op = "get_available_fields" /\ reader.is_cylindrical
    /\ Val(result.value) = <<<<"Ex">>>>
    /\ Len(reader.available_fields) = 3

(* -------------------------------------------------------------- the axes *)

\* the halves -MaxGrid/2 .. MaxGrid/2
GridRange == {FloatOfHalves(h) : h \in -MaxGrid .. MaxGrid}

\* 2^53, where the spacing between neighbouring float64 values becomes 2
BigOffset == Float(FALSE, {Precision})

\* one group, one field; extents, offsets and spacings over their ranges, in
\* one dimension and in two, an offset far from the origin, and the
\* attributes absent
AxesDisks ==
    {Disk(<<<<"0", "0">>>>, [k \in {<<"0", "0">>} |-> {Rho}], <<n>>,
          Some(<<off>>), Some(<<sp>>)) :
        n \in 0 .. MaxExtent, off \in GridRange \cup {BigOffset}, sp \in GridRange}
    \cup
    {Disk(<<<<"0", "0">>>>, [k \in {<<"0", "0">>} |-> {Rho}], <<2, n>>,
          Some(<<FloatOfHalves(1), off>>), Some(<<FloatOfHalves(3), sp>>)) :
        n \in 0 .. MaxExtent, off \in GridRange, sp \in GridRange}
    \cup
    {Disk(<<<<"0", "0">>>>, [k \in {<<"0", "0">>} |-> {Rho}], <<n, 1>>, None, None) :
        n \in 0 .. MaxExtent}

InitAxes ==
    /\ disk \in AxesDisks
    /\ reader = NoReader
    /\ handle = "none"
    /\ closes = 0
    /\ result = Idle
    /\ got = NoCall

NextAxes == OpenTime \/ GetAxes

SpecAxes == InitAxes /\ [][NextAxes]_vars

\* the grid attributes of the container, absent ones at their defaults of
\* zero and one
DiskOffset(d) == IF IsNone(disk.offsetAttr) THEN Zero ELSE Val(disk.offsetAttr)[d]

DiskSpacing(d) ==
    IF IsNone(disk.spacingAttr) THEN FloatOfInt(1) ELSE Val(disk.spacingAttr)[d]

(* ------------------------------------------------------------------ C9 *)

\* C9: for every dimension d, get_axes returns an array of length exactly
\* shape[d] whose i-th value is offset[d] + i * spacing[d], as does the array
\* computed at open.
C9_AxisValues ==
    result.op = "get_axes" =>
        LET axes == Val(result.value)
        IN  /\ DOMAIN axes = DOMAIN disk.shape
            /\ axes = reader.axes_coords
            /\ \A d \in DOMAIN disk.shape :
                  /\ Len(axes[d]) = disk.shape[d]
                  /\ \A i \in 0 .. disk.shape[d] - 1 :
                        axes[d][i + 1] =
                           FAdd(DiskOffset(d), FMul(FloatOfInt(i), DiskSpacing(d)))

(* ------------------------------------------------------ the selections *)

OptRange(lo, hi) == {None} \cup {Some(i) : i \in lo .. hi}

\* one group holding modes 0 and 1 of Ex, each dataset of two rows of n
\* interleaved pairs (2n on-disk positions on the second dimension)
SelDisks ==
    {Disk(<<<<"0", "0">>>>, [k \in {<<"0", "0">>} |-> {Ex0, Ex1}], <<2, 2 * n>>,
          None, None) : n \in 1 .. MaxIdx}

\* a caller's selection [a, b) with stride s on the second dimension, each
\* of the three possibly unspecified, and an angle
SelSubsets ==
    {[dims |-> <<None, Some(Slice(a, b, s))>>, theta |-> Some(th)] :
        a \in OptRange(0, MaxIdx), b \in OptRange(0, MaxIdx),
        s \in OptRange(1, MaxStep), th \in {0, 1}}

InitSel ==
    /\ disk \in SelDisks
    /\ reader = NoReader
    /\ handle = "none"
    /\ closes = 0
    /\ result = Idle
    /\ got = NoCall

GetSel ==
    \E s \in SelSubsets : GetFieldAtTime(<<"Ex">>, [kind |-> "num", h |-> 0], s)

NextSel == OpenTime \/ GetSel \/ Close

SpecSel == InitSel /\ [][NextSel]_vars

\* the positions the caller's selection names among the n pairs
CallerIndices == Indices(Val(got.subset.dims[2]), disk.shape[2] \div 2)

\* the on-disk positions of the second dimension that the completed reads
\* of the part `fn` of a dataset touched
Touched(ds, fn) ==
    {Indices(got.out.plan[i].sel[2], disk.shape[2]) :
        i \in {j \in DOMAIN got.out.plan :
                  got.out.plan[j].ds = ds /\ got.out.plan[j].w.fn = fn}}

(* ------------------------------------------------------------------ C3 *)

\* C3: in angular reconstruction, for a caller's selection [a, b) with
\* stride s on the second dimension, start, stop or stride possibly
\* unspecified, the real-part read of every mode dataset touches exactly the
\* on-disk positions 2i and the imaginary-part read of every mode above zero
\* exactly the positions 2i + 1, i ranging over the positions the caller
\* selected, so both read as many samples as the caller selected.
C3_InterleavedReads ==
    (IsModeCall /\ ~IsNone(got.subset.theta) /\ Len(disk.shape) > 1
        /\ ~IsNone(got.subset.dims[2]))
    => \A m \in PresentModes :
          /\ Touched(ModeField(got.field, m), "cos") =
                {{2 * i : i \in CallerIndices}}
          /\ m > 0 =>
                Touched(ModeField(got.field, m), "sin") =
                   {{2 * i + 1 : i \in CallerIndices}}

====
